---- MODULE Spec2Model ----
(***************************************************************************)
(* Model of the goa request-dispatch runtime (service.go): the service     *)
(* and controller registries, the middleware chain built by HandleFunc,    *)
(* the per-request dispatch with its decode-failure handler, error         *)
(* handlers and unhandled-request backstop, and the root cancellation      *)
(* scope.                                                                  *)
(*                                                                         *)
(* Go slices are modelled as they are in the runtime: a slice is a window  *)
(* (array, len, cap) on a backing array of the heap, and append writes in  *)
(* place when the capacity allows it and allocates a new array otherwise.  *)
(***************************************************************************)
EXTENDS Integers, Sequences, FiniteSets, TLC

\* ------------------------------------------------------------------ bounds
\* longest application-wide middleware list (SpecChain, SpecReg)
MaxAppMw == 3
\* longest middleware list of a controller
MaxCtrlMw == 2
\* longest application-wide middleware list in Spec
MaxUse == 2
\* requests in flight at once (SpecCancel)
MaxReq == 3
\* goroutines calling GetVersion
MaxCallers == 2
\* Use calls made on the service, and on a controller, after HandleFunc (SpecLate)
MaxLate == 1

\* ------------------------------------------------------------ input values
\* Middleware values handed to Use. What a middleware does when it runs:
\* "pass" runs its pre-logic, calls the next handler and runs its post-logic;
\* "respond" writes a response in its pre-logic and still calls the next handler;
\* "reject" writes a response and returns without calling the next handler.
Mw == {1, 2, 3, 4, 5}
MwKind(m) == IF m = 3 THEN "respond" ELSE IF m = 4 THEN "reject" ELSE "pass"

Ctrls == {"A", "B"}
ActionNames == {"show", "list"}
Reqs == 1..MaxReq
Callers == 1..MaxCallers
VersionNames == {"", "v1", "v2"}

\* content types a request declares, those a decoder is registered for, and
\* the decoder factories
ContentTypes == {"application/json", "application/xml", "text/unknown"}
Registrable == {"application/json", "application/xml"}
Decoders == {"json", "xml"}
NoDecoderErr == [kind |-> "error", msg |-> "no decoder"]

\* error values: the dynamic type decides BadRequestError or not, msg is Error()
NoErr == [kind |-> "none", msg |-> ""]
ActErrs == {[kind |-> "BadRequestError", msg |-> "boom"],
            [kind |-> "error", msg |-> "boom"]}
DecodeErrs == {[kind |-> "error", msg |-> "EOF"]}
UnhandledErr == [kind |-> "error", msg |-> "unhandled request"]
\* errors handed to an error handler, and the Content-Type header the
\* response holds before the handler runs
Errs == [kind : {"BadRequestError", "error"}, msg : {"", "boom", "unhandled request"}]
Headers == {"", "text/plain"}

\* What the action function of a request does: write a response or not, and
\* return an error or nil.
Acts == [wr : BOOLEAN, err : ActErrs \cup {NoErr}]
ActOk == [wr |-> TRUE, err |-> NoErr]

\* error handler values an application or a controller can hold
ErrorHandlers == {"nil", "DefaultErrorHandler", "TerseErrorHandler"}

VARIABLES
  heap,        \* backing arrays of the middleware slices: array id -> contents
  app,         \* Application: errorHandler, middleware (slice)
  ctrls,       \* ApplicationController per resource: made, errorHandler, middleware
  handlers,    \* the HandleFunc built for each action name (closure: ctrl, d, chain, ml, middleware)
  lastChain,   \* value returned by the last direct MiddlewareChain call
  serving,     \* a ListenAndServe or ListenAndServeTLS call is serving requests
  listen,      \* how the last ListenAndServe or ListenAndServeTLS call ended
  used,        \* history: the middleware handed to Use, in call order, on the
               \* application ("app") and on each controller
  root,        \* RootContext: cancelled, children (derived request scopes)
  req,         \* per request: position in the dispatch, context, trace
  vers,        \* the version objects allocated so far (a pointer is an index)
  gv,          \* per caller of GetVersion: position in the call, locals, result
  gen          \* goagen main generator: the output directory, the Generator, its last run

vars == <<heap, app, ctrls, handlers, lastChain, serving, listen, used, root, req, vers, gv, gen>>

\* ------------------------------------------------------------------ slices
Nil == 0
NilSlice == [arr |-> 0, len |-> 0, cap |-> 0]

\* s[1..len] read through the backing array
Elems(h, s) == [i \in 1..s.len |-> h[s.arr][i]]

\* runtime.roundupsize for 8-byte elements: the malloc size classes, in elements
SizeClasses == {1, 2, 3, 4, 6, 8, 10, 12, 14, 16}
RoundUpCap(n) ==
  IF \E c \in SizeClasses : c >= n
  THEN CHOOSE c \in SizeClasses : c >= n /\ \A d \in SizeClasses : d >= n => c <= d
  ELSE n

\* runtime.growslice: double, or the needed length when doubling is not enough
GrowCap(oldcap, needed) ==
  RoundUpCap(IF needed > 2 * oldcap THEN needed ELSE 2 * oldcap)

\* arrays referenced by a live slice; the others are garbage
Live == {app.middleware.arr} \cup {ctrls[c].middleware.arr : c \in Ctrls}
        \cup {handlers[n].chain.arr : n \in ActionNames}
        \cup {lastChain.arr}

\* enough array ids for every live slice and one allocation in progress
ArrIds == 1..(Cardinality(Ctrls) + Cardinality(ActionNames) + 3)

\* the garbage collector: an unreferenced array is reclaimed
Collect(h, live) == [a \in ArrIds |-> IF a \in live THEN h[a] ELSE <<>>]

FreshArr(h, live) == CHOOSE a \in ArrIds : a \notin live /\ \A b \in ArrIds : b \notin live => a <= b

\* append(s, elems...): in place when len+n <= cap, else a new array.
\* Returns the new heap and the resulting slice.
append(h, live, s, elems) ==
  LET n == s.len + Len(elems) IN
  IF Len(elems) = 0 THEN [heap |-> h, slice |-> s]
  ELSE IF n <= s.cap
  THEN [heap |-> [h EXCEPT ![s.arr] =
                    [i \in 1..s.cap |-> IF i > s.len /\ i <= n
                                        THEN elems[i - s.len] ELSE @[i]]],
        slice |-> [s EXCEPT !.len = n]]
  ELSE LET a == FreshArr(h, live)
           c == GrowCap(s.cap, n)
           old == Elems(h, s)
       IN [heap |-> [h EXCEPT ![a] =
                       [i \in 1..c |-> IF i <= s.len THEN old[i]
                                       ELSE IF i <= n THEN elems[i - s.len]
                                       ELSE Nil]],
           slice |-> [arr |-> a, len |-> n, cap |-> c]]

\* ------------------------------------------------------------ construction
\* New(name): errorHandler is DefaultErrorHandler, no middleware.
\* init(): RootContext is a fresh cancellable context.
NoCtrl == [made |-> FALSE, errorHandler |-> "nil", middleware |-> NilSlice]
NoHandler == [mws |-> <<>>, term |-> "none"]
NoHandleFunc == [made |-> FALSE, ctrl |-> "", d |-> FALSE, chain |-> NilSlice,
                 ml |-> 0, middleware |-> NoHandler, returned |-> <<>>]
IdleReq == [pc |-> "idle", h |-> "", cl |-> 0, act |-> [wr |-> FALSE, err |-> NoErr],
            err |-> NoErr, handler |-> NoHandler, status |-> 0, hdr |-> "", writes |-> <<>>, trace |-> <<>>,
            given |-> [handler |-> "nil", e |-> NoErr, hdr |-> ""],
            decode |-> [ct |-> "", by |-> "none", err |-> NoErr],
            scope |-> [made |-> FALSE, cancelled |-> FALSE, bornCancelled |-> FALSE]]

\* a nil map, and the map make() returns; a value is a pointer, 0 when the
\* key is absent
NilMap == [null |-> TRUE, m |-> [n \in VersionNames |-> 0]]
EmptyMap == [null |-> FALSE, m |-> [n \in VersionNames |-> 0]]
IdleCaller == [pc |-> "idle", name |-> "", result |-> 0]

\* ------------------------------------------------- generator (gen_main)
\* the files Generate targets: main.go and one file per resource of the
\* design, in the order IterateResources visits the resources
MainFile == "main.go"
ResourceFiles == <<"r1.go", "r2.go">>
Files == {MainFile} \cup {ResourceFiles[i] : i \in 1..Len(ResourceFiles)}

\* error values: nil, and one per failing call
NilErr == "nil"
PackagePathErr == "package path"
StatErr == "stat: no such file or directory"
RemoveErr == "remove: no such file or directory"
SourceFileErr == "source file"
TemplateErr == "template"
FormatErr == "format"

\* which call fails in a run: the first PackagePath, a step of main.go, a step
\* of each resource file
MainSteps == {"none", "create", "pkg", "template", "format"}
ResourceSteps == {"none", "create", "controller", "action", "format"}
Failures == [pkg : BOOLEAN, main : MainSteps, res : [1..Len(ResourceFiles) -> ResourceSteps]]
NoFailure == [pkg |-> FALSE, main |-> "none", res |-> [i \in 1..Len(ResourceFiles) |-> "none"]]

\* a new Generator beside the output directory fs. pc is the statement of
\* Generate to run next, i the resource IterateResources is at, tmp the value
\* of g.genfiles an append has read, rest the files the loop of the deferred
\* Cleanup has still to remove, catch the goroutine of utils.Catch and
\* catchRest the files the loop of its Cleanup has still to remove.
\* pre and force are the arguments of the last run; fail, recorded, created
\* and failed are its history: the calls that failed, the files appended to
\* genfiles, those SourceFileFor created, those for which a step failed
NewGenerator(fs) ==
  [pc |-> "idle", fs |-> fs, genfiles |-> <<>>, err |-> NilErr, files |-> <<>>,
   i |-> 1, tmp |-> <<>>, rest |-> <<>>, catch |-> "off", catchRest |-> <<>>,
   pre |-> fs, force |-> FALSE, fail |-> NoFailure,
   recorded |-> {}, created |-> {}, failed |-> {}]

\* Generator.Cleanup, one iteration of the loop
\* for _, f := range g.genfiles { os.Remove(f) }: the range expression is
\* evaluated once, when the loop starts, and each iteration removes one file
\* (the error of os.Remove is dropped)
CleanupRemove(st, f) == [st EXCEPT !.fs = @ \ {f}]

\* Generator.Cleanup, the last statement: g.genfiles = nil
CleanupNil(st) == [st EXCEPT !.genfiles = <<>>]

\* the loop of Cleanup over the files rest, run without interruption
RECURSIVE CleanupLoop(_, _)
CleanupLoop(st, rest) ==
  IF rest = <<>> THEN st ELSE CleanupLoop(CleanupRemove(st, Head(rest)), Tail(rest))

\* Generator.Cleanup, run without interruption
Cleanup(st) == CleanupNil(CleanupLoop(st, st.genfiles))

\* return files, err: the results are set, the deferred function runs next
ReturnWith(st, files, err) ==
  [st EXCEPT !.files = files, !.err = err, !.pc = "defer"]

\* a step of main.go failed
MainFailed(st, step) ==
  [st EXCEPT !.fail.main = step, !.failed = @ \cup {MainFile}]

\* a step of the resource file at hand failed
ResourceFailed(st, step) ==
  [st EXCEPT !.fail.res[st.i] = step, !.failed = @ \cup {ResourceFiles[st.i]}]

\* the function passed to IterateResources returns e. api.IterateResources
\* calls the function for each resource in turn and returns the first error;
\* Generate assigns the result to err, returns if it is not nil, and
\* otherwise returns g.genfiles.
CallbackReturn(st, e) ==
  IF e # NilErr THEN ReturnWith(st, <<>>, e)
  ELSE IF st.i < Len(ResourceFiles) THEN [st EXCEPT !.i = @ + 1, !.pc = "112"]
  ELSE [st EXCEPT !.err = NilErr, !.pc = "146"]

\* one statement of Generator.Generate, named by its line; bad: the call the
\* statement makes fails. st.err is the named result err, which the function
\* passed to IterateResources captures.
GenStep(st, bad) ==
  LET f == ResourceFiles[st.i] IN
  CASE st.pc = "52" ->
         [st EXCEPT !.fs = IF st.force THEN @ \ {MainFile} ELSE @, !.pc = "61"]
    [] st.pc = "61" ->
         IF bad THEN ReturnWith([st EXCEPT !.fail.pkg = TRUE], <<>>, PackagePathErr)
         ELSE [st EXCEPT !.pc = "66"]
    [] st.pc = "66" ->
         IF MainFile \in st.fs
         THEN [st EXCEPT !.err = NilErr, !.pc = "112"]
         ELSE [st EXCEPT !.err = StatErr, !.pc = "68r"]
    [] st.pc = "68r" -> [st EXCEPT !.tmp = st.genfiles, !.pc = "68w"]
    [] st.pc = "68w" ->
         [st EXCEPT !.genfiles = Append(st.tmp, MainFile), !.tmp = <<>>,
                    !.recorded = @ \cup {MainFile}, !.pc = "69"]
    [] st.pc = "69" ->
         IF bad THEN ReturnWith(MainFailed(st, "create"), <<>>, SourceFileErr)
         ELSE [st EXCEPT !.fs = @ \cup {MainFile}, !.created = @ \cup {MainFile}, !.pc = "74"]
    [] st.pc = "74" ->
         IF bad THEN ReturnWith(MainFailed(st, "pkg"), <<>>, PackagePathErr)
         ELSE [st EXCEPT !.pc = "97"]
    [] st.pc = "97" ->
         IF bad THEN ReturnWith(MainFailed(st, "template"), <<>>, TemplateErr)
         ELSE [st EXCEPT !.pc = "100"]
    [] st.pc = "100" ->
         IF bad THEN ReturnWith(MainFailed(st, "format"), <<>>, FormatErr)
         ELSE [st EXCEPT !.pc = "112"]
    [] st.pc = "112" ->
         IF ~st.force THEN [st EXCEPT !.pc = "117"]
         ELSE IF f \notin st.fs THEN CallbackReturn(st, RemoveErr)
         ELSE [st EXCEPT !.fs = @ \ {f}, !.pc = "117"]
    [] st.pc = "117" ->
         IF f \in st.fs THEN CallbackReturn(st, NilErr)
         ELSE [st EXCEPT !.pc = "118r"]
    [] st.pc = "118r" -> [st EXCEPT !.tmp = st.genfiles, !.pc = "118w"]
    [] st.pc = "118w" ->
         [st EXCEPT !.genfiles = Append(st.tmp, f), !.tmp = <<>>,
                    !.recorded = @ \cup {f}, !.pc = "119"]
    [] st.pc = "119" ->
         IF bad THEN CallbackReturn(ResourceFailed(st, "create"), st.err)
         ELSE [st EXCEPT !.fs = @ \cup {f}, !.created = @ \cup {f}, !.pc = "124"]
    [] st.pc = "124" ->
         IF bad THEN CallbackReturn(ResourceFailed(st, "controller"), st.err)
         ELSE [st EXCEPT !.pc = "127"]
    [] st.pc = "127" ->
         IF bad THEN CallbackReturn(ResourceFailed(st, "action"), st.err)
         ELSE [st EXCEPT !.pc = "136"]
    [] st.pc = "136" ->
         IF bad THEN CallbackReturn(ResourceFailed(st, "format"), FormatErr)
         ELSE CallbackReturn(st, NilErr)
    [] st.pc = "146" -> ReturnWith(st, st.genfiles, NilErr)
    [] st.pc = "defer" ->
         IF st.err # NilErr THEN [st EXCEPT !.rest = st.genfiles, !.pc = "152"]
         ELSE [st EXCEPT !.pc = "returned"]
    [] st.pc = "152" ->
         IF st.rest = <<>> THEN [CleanupNil(st) EXCEPT !.pc = "returned"]
         ELSE [CleanupRemove(st, Head(st.rest)) EXCEPT !.rest = Tail(st.rest)]
    [] OTHER -> st

\* whether the call of the statement at hand fails under the plan fail
Bad(st, fail) ==
  CASE st.pc = "61" -> fail.pkg
    [] st.pc = "69" -> fail.main = "create"
    [] st.pc = "74" -> fail.main = "pkg"
    [] st.pc = "97" -> fail.main = "template"
    [] st.pc = "100" -> fail.main = "format"
    [] st.pc = "119" -> fail.res[st.i] = "create"
    [] st.pc = "124" -> fail.res[st.i] = "controller"
    [] st.pc = "127" -> fail.res[st.i] = "action"
    [] st.pc = "136" -> fail.res[st.i] = "format"
    [] OTHER -> FALSE

\* the entry of Generate: utils.Catch is started in a goroutine of its own,
\* the function that cleans up on error is deferred
GenerateStart(st, force) ==
  [st EXCEPT !.pc = "52", !.force = force, !.pre = st.fs, !.catch = "waiting"]

\* Generate from the statement at hand to its return, no signal arriving
RECURSIVE GenerateRun(_, _)
GenerateRun(st, fail) ==
  IF st.pc = "returned" THEN st
  ELSE GenerateRun(GenStep(st, Bad(st, fail)), fail)

\* a target file is in the output directory before the generator runs
FileExists(f) ==
  /\ gen.pc = "idle"
  /\ f \notin gen.fs
  /\ gen' = NewGenerator(gen.fs \cup {f})
  /\ UNCHANGED <<heap, app, ctrls, handlers, lastChain, serving, root, req, vers, gv, listen, used>>

\* Generator.Generate(api) with the flag Force and the failing calls fail,
\* run to its return before any signal arrives
Generate(force, fail) ==
  /\ gen.pc = "idle"
  /\ gen' = GenerateRun(GenerateStart(gen, force), fail)
  /\ UNCHANGED <<heap, app, ctrls, handlers, lastChain, serving, root, req, vers, gv, listen, used>>

\* Generator.Generate(api) is called
GenerateCall(force) ==
  /\ gen.pc = "idle"
  /\ gen' = GenerateStart(gen, force)
  /\ UNCHANGED <<heap, app, ctrls, handlers, lastChain, serving, root, req, vers, gv, listen, used>>

\* the call runs its next statement
GenerateStep ==
  /\ gen.pc \notin {"idle", "returned"}
  /\ \E bad \in BOOLEAN : gen' = GenStep(gen, bad)
  /\ UNCHANGED <<heap, app, ctrls, handlers, lastChain, serving, root, req, vers, gv, listen, used>>

\* a signal arrives: utils.Catch calls g.Cleanup() in its goroutine, while
\* Generate runs or after it returned. None of the accesses of this Cleanup
\* is synchronised with those of Generate. Cleanup reads g.genfiles, ...
CatchSignal ==
  /\ gen.catch = "waiting"
  /\ gen' = [gen EXCEPT !.catchRest = gen.genfiles, !.catch = "removing"]
  /\ UNCHANGED <<heap, app, ctrls, handlers, lastChain, serving, root, req, vers, gv, listen, used>>

\* ... removes the files it held, one os.Remove at a time, ...
CatchRemove ==
  /\ gen.catch = "removing"
  /\ gen.catchRest # <<>>
  /\ gen' = [CleanupRemove(gen, Head(gen.catchRest)) EXCEPT !.catchRest = Tail(gen.catchRest)]
  /\ UNCHANGED <<heap, app, ctrls, handlers, lastChain, serving, root, req, vers, gv, listen, used>>

\* ... and then sets g.genfiles to nil
CatchCleanup ==
  /\ gen.catch = "removing"
  /\ gen.catchRest = <<>>
  /\ gen' = [CleanupNil(gen) EXCEPT !.catch = "done"]
  /\ UNCHANGED <<heap, app, ctrls, handlers, lastChain, serving, root, req, vers, gv, listen, used>>

\* the next run of goagen: g := new(Generator), on the directory as it is
NextGenerator ==
  /\ gen.pc = "returned"
  /\ gen' = NewGenerator(gen.fs)
  /\ UNCHANGED <<heap, app, ctrls, handlers, lastChain, serving, root, req, vers, gv, listen, used>>

Init ==
  /\ gen = NewGenerator({})
  /\ heap = [a \in ArrIds |-> <<>>]
  /\ app = [errorHandler |-> "DefaultErrorHandler", middleware |-> NilSlice,
            versions |-> NilMap,
            decoderPools |-> [ct \in ContentTypes |-> "none"], defaultDecoder |-> "none"]
  /\ vers = <<>>
  /\ gv = [t \in Callers |-> IdleCaller]
  /\ ctrls = [c \in Ctrls |-> NoCtrl]
  /\ handlers = [n \in ActionNames |-> NoHandleFunc]
  /\ lastChain = NilSlice
  /\ serving = FALSE
  /\ listen = "none"
  /\ used = [x \in {"app"} \cup Ctrls |-> <<>>]
  /\ root = [cancelled |-> FALSE, children |-> {}]
  /\ req = [r \in Reqs |-> IdleReq]

\* ------------------------------------------------------------ registration
\* Application.Use
Use(m) ==
  /\ LET r == append(heap, Live, app.middleware, <<m>>) IN
       /\ app' = [app EXCEPT !.middleware = r.slice]
       /\ used' = [used EXCEPT !["app"] = Append(@, m)]
       /\ UNCHANGED <<ctrls, handlers, lastChain, serving, root, req, vers, gv, gen, listen>>
       /\ heap' = Collect(r.heap, Live')

\* Application.SetErrorHandler
SetErrorHandler(handler) ==
  /\ app.errorHandler # handler
  /\ app' = [app EXCEPT !.errorHandler = handler]
  /\ UNCHANGED <<heap, ctrls, handlers, lastChain, serving, root, req, vers, gv, gen, listen, used>>

\* Application.NewController
NewController(c) ==
  /\ ~ctrls[c].made
  /\ ctrls' = [ctrls EXCEPT ![c] = [made |-> TRUE, errorHandler |-> "nil",
                                     middleware |-> NilSlice]]
  /\ UNCHANGED <<heap, app, handlers, lastChain, serving, root, req, vers, gv, gen, listen, used>>

\* ApplicationController.Use
CtrlUse(c, m) ==
  /\ ctrls[c].made
  /\ LET r == append(heap, Live, ctrls[c].middleware, <<m>>) IN
       /\ ctrls' = [ctrls EXCEPT ![c].middleware = r.slice]
       /\ used' = [used EXCEPT ![c] = Append(@, m)]
       /\ UNCHANGED <<app, handlers, lastChain, serving, root, req, vers, gv, gen, listen>>
       /\ heap' = Collect(r.heap, Live')

\* ApplicationController.SetErrorHandler
CtrlSetErrorHandler(c, handler) ==
  /\ ctrls[c].made
  /\ ctrls[c].errorHandler # handler
  /\ ctrls' = [ctrls EXCEPT ![c].errorHandler = handler]
  /\ UNCHANGED <<heap, app, handlers, lastChain, serving, root, req, vers, gv, gen, listen, used>>

\* (variant: the controller's middleware come first)
ChainResultCtrlFirst(c) ==
  append(heap, Live, ctrls[c].middleware, Elems(heap, app.middleware))

\* ApplicationController.MiddlewareChain:
\*   append(ctrl.app.middleware, ctrl.middleware...)
ChainResult(c) ==
  append(heap, Live, app.middleware, Elems(heap, ctrls[c].middleware))

MiddlewareChain(c) ==
  /\ ctrls[c].made
  /\ LET r == ChainResult(c) IN
       /\ lastChain' = r.slice
       /\ UNCHANGED <<app, ctrls, handlers, serving, root, req, vers, gv, gen, listen, used>>
       /\ heap' = Collect(r.heap, Live')

\* A Handler value: the middleware closures around a terminal handler,
\* outermost first. m(handler) wraps handler in middleware m.
WrapWith(m, handler) == [handler EXCEPT !.mws = <<m>> \o @]

\* (variant: wraps with chain[i], which puts the last middleware outermost)
RECURSIVE ComposeFromFirst(_, _, _, _)
ComposeFromFirst(chain, ml, i, handler) ==
  IF i >= ml THEN handler
  ELSE ComposeFromFirst(chain, ml, i + 1, WrapWith(chain[i + 1], handler))

\* for i := range chain { middleware = chain[ml-i-1](middleware) }
\* (i counts from 0; chain[ml-i-1] is element ml-i counting from 1)
RECURSIVE ComposeFrom(_, _, _, _)
ComposeFrom(chain, ml, i, handler) ==
  IF i >= ml THEN handler
  ELSE ComposeFrom(chain, ml, i + 1, WrapWith(chain[ml - i], handler))

Compose(chain, ml, term) ==
  ComposeFrom(chain, ml, 0, [mws |-> <<>>, term |-> term])

\* ApplicationController.HandleFunc, the part run when it is called:
\* the terminal closure, chain := ctrl.MiddlewareChain(), ml, the composition.
\* (returned is a history field: the elements MiddlewareChain returned.)
HandleFunc(name, c, d) ==
  /\ ctrls[c].made
  /\ LET r == ChainResult(c)
         chain == r.slice
         ml == chain.len
     IN /\ handlers' = [handlers EXCEPT ![name] =
                         [made |-> TRUE, ctrl |-> c, d |-> d, chain |-> chain, ml |-> ml,
                          middleware |-> Compose(Elems(r.heap, chain), ml, "action"),
                          returned |-> Elems(r.heap, chain)]]
        /\ UNCHANGED <<app, ctrls, lastChain, serving, root, req, vers, gv, gen, listen, used>>
        /\ heap' = Collect(r.heap, Live')

\* how a call that starts the server ends. "serving": the listener is open,
\* the call blocks and requests are dispatched. "error": the server returns
\* an error (the listener cannot be opened, the certificate cannot be
\* loaded) and the call returns it. "panic": ServeMux reads the mux of the
\* embedded version, which New leaves nil; unless the package has set it the
\* read dereferences nil. A call that ended leaves the application as it
\* was, and the caller may go on.
ListenOutcomes == {"serving", "error", "panic"}

\* http.ListenAndServe(addr, app.ServeMux()) and its TLS counterpart
Listen(outcome) ==
  /\ ~serving
  /\ serving' = (outcome = "serving")
  /\ listen' = IF outcome = "serving" THEN "none" ELSE outcome
  /\ UNCHANGED <<heap, app, ctrls, handlers, lastChain, root, req, vers, gv, gen, used>>

\* Application.ListenAndServe
ListenAndServe == \E outcome \in ListenOutcomes : Listen(outcome)

\* Application.ListenAndServeTLS
ListenAndServeTLS == \E outcome \in ListenOutcomes : Listen(outcome)

\* ---------------------------------------------------------------- versions
\* (variant: the lookup never finds the name)
LookupMiss(versions, name) == [ver |-> 0, ok |-> FALSE]

\* ver, ok := app.versions[name]
Lookup(versions, name) ==
  [ver |-> versions.m[name], ok |-> versions.m[name] # 0]

\* &version{name: name, mux: NewMux(), decoderPools: {}, encoderPools: {},
\*          encodableContentTypes: []}
NewVersionObject(name) ==
  [name |-> name, mux |-> {}, decoderPools |-> {}, encoderPools |-> {},
   encodableContentTypes |-> <<>>]

\* GetVersion(name) is called: if app.versions == nil
GetVersion(t, name) ==
  /\ gv[t].pc \in {"idle", "returned"}
  /\ gv' = [gv EXCEPT ![t] = [pc |-> IF app.versions.null THEN "make" ELSE "lookup",
                              name |-> name, result |-> 0]]
  /\ UNCHANGED <<heap, app, ctrls, handlers, lastChain, serving, root, req, vers, gen, listen, used>>

\* app.versions = make(map[string]Version, 1)
GetVersionMake(t) ==
  /\ gv[t].pc = "make"
  /\ app' = [app EXCEPT !.versions = EmptyMap]
  /\ gv' = [gv EXCEPT ![t].pc = "lookup"]
  /\ UNCHANGED <<heap, ctrls, handlers, lastChain, serving, root, req, vers, gen, listen, used>>

\* ver, ok := app.versions[name]; if ok { return ver }
GetVersionLookup(t) ==
  /\ gv[t].pc = "lookup"
  /\ LET l == Lookup(app.versions, gv[t].name) IN
       gv' = [gv EXCEPT ![t].pc = IF l.ok THEN "returned" ELSE "new",
                        ![t].result = IF l.ok THEN l.ver ELSE 0]
  /\ UNCHANGED <<heap, app, ctrls, handlers, lastChain, serving, root, req, vers, gen, listen, used>>

\* newVersion: app.versions[name] = &version{...}
newVersion(t) ==
  /\ gv[t].pc = "new"
  /\ vers' = Append(vers, NewVersionObject(gv[t].name))
  /\ app' = [app EXCEPT !.versions.m[gv[t].name] = Len(vers) + 1]
  /\ gv' = [gv EXCEPT ![t].pc = "reread"]
  /\ UNCHANGED <<heap, ctrls, handlers, lastChain, serving, root, req, gen, listen, used>>

\* newVersion: return app.versions[name]
newVersionReturn(t) ==
  /\ gv[t].pc = "reread"
  /\ gv' = [gv EXCEPT ![t].pc = "returned", ![t].result = app.versions.m[gv[t].name]]
  /\ UNCHANGED <<heap, app, ctrls, handlers, lastChain, serving, root, req, vers, gen, listen, used>>

\* Two goroutines inside GetVersion, one of them about to write the map: an
\* unsynchronised map write that overlaps another access is a data race; besides
\* the interleavings of the steps above, the runtime may stop the process
\* ("fatal error: concurrent map writes").
ConcurrentMapFault ==
  /\ \E t, u \in Callers :
       t # u /\ gv[t].pc \in {"make", "new"} /\ gv[u].pc \in {"make", "lookup", "new", "reread"}
  /\ gv' = [t \in Callers |-> [gv[t] EXCEPT !.pc = "fatal"]]
  /\ UNCHANGED <<heap, app, ctrls, handlers, lastChain, serving, root, req, vers, gen, listen, used>>

\* no other caller is inside GetVersion
Quiet(t) == \A u \in Callers \ {t} : gv[u].pc \in {"idle", "returned"}

\* ---------------------------------------------------------------- decoders
\* SetDecoder(f, version, makeDefault, contentTypes...) on the unversioned
\* service: each content type is associated with f, and f becomes the
\* fallback when makeDefault is true.
SetDecoder(f, makeDefault, cts) ==
  /\ app' = [app EXCEPT
               !.decoderPools = [ct \in ContentTypes |-> IF ct \in cts THEN f ELSE @[ct]],
               !.defaultDecoder = IF makeDefault THEN f ELSE @]
  /\ app' # app
  /\ UNCHANGED <<heap, ctrls, handlers, lastChain, serving, root, req, vers, gv, gen, listen, used>>

\* (variant: the default decoder is preferred to the registered one)
ResolveDecoderDefaultFirst(a, ct) ==
  IF a.defaultDecoder # "none" THEN a.defaultDecoder ELSE a.decoderPools[ct]

\* negotiation on decode: the pool registered for the declared content type,
\* else the default pool, else none
ResolveDecoder(a, ct) ==
  IF a.decoderPools[ct] # "none" THEN a.decoderPools[ct] ELSE a.defaultDecoder

\* DecodeRequest for a request that declares content type ct
DecodeRequest(r, ct) ==
  /\ serving
  /\ req[r].pc = "idle"
  /\ LET by == ResolveDecoder(app, ct) IN
       req' = [req EXCEPT ![r] =
                 [IdleReq EXCEPT !.pc = "decoded",
                                 !.decode = [ct |-> ct, by |-> by,
                                             err |-> IF by = "none" THEN NoDecoderErr ELSE NoErr]]]
  /\ UNCHANGED <<heap, app, ctrls, handlers, lastChain, serving, root, vers, gv, gen, listen, used>>

\* ----------------------------------------------------------- cancellation
\* context.WithCancel(RootContext): the child is registered with its parent,
\* or cancelled at once when the parent is cancelled already.
WithCancel(parent) == [made |-> TRUE, cancelled |-> parent.cancelled,
                       bornCancelled |-> parent.cancelled]

\* (variant: the request scope is derived from a context of its own)
DeriveScopeDetached(r) ==
  [scope |-> [made |-> TRUE, cancelled |-> FALSE, bornCancelled |-> FALSE],
   root |-> root]

\* gctx, cancel := context.WithCancel(RootContext)
DeriveScope(r) ==
  [scope |-> WithCancel(root),
   root |-> IF root.cancelled THEN root ELSE [root EXCEPT !.children = @ \cup {r}]]

\* Cancel(): the root CancelFunc cancels the root and every registered child.
Cancel ==
  /\ ~root.cancelled
  /\ root' = [cancelled |-> TRUE, children |-> {}]
  /\ req' = [r \in Reqs |-> IF r \in root.children
                            THEN [req[r] EXCEPT !.scope.cancelled = TRUE]
                            ELSE req[r]]
  /\ UNCHANGED <<heap, app, ctrls, handlers, lastChain, serving, vers, gv, gen, listen, used>>

\* ------------------------------------------------------- response writing
Log(q, ev) == [q EXCEPT !.trace = Append(@, ev)]

\* Context.RespondBytes: records the status and writes header and body.
RespondBytes(q, code, body, by) ==
  [Log(q, <<"write", by>>) EXCEPT
      !.status = code,
      !.writes = Append(@, [status |-> code, body |-> body, hdr |-> q.hdr, by |-> by])]

\* Context.ResponseWritten / Context.ResponseStatus
ResponseWritten(q) == q.status # 0
ResponseStatus(q) == q.status

\* ---------------------------------------------------------- error handlers
\* (variant: every error is an internal error)
DefaultErrorHandlerNoKind(q, e) == RespondBytes(q, 500, e.msg, "errorHandler")

\* DefaultErrorHandler
DefaultErrorHandler(q, e) ==
  LET bad == e.kind = "BadRequestError"
      q1 == IF bad THEN [q EXCEPT !.hdr = "application/json"] ELSE q
      status == IF bad THEN 400 ELSE 500
  IN RespondBytes(q1, status, e.msg, "errorHandler")

\* (variant: the body is the message whatever the status)
TerseErrorHandlerVerbose(q, e) ==
  LET bad == e.kind = "BadRequestError"
      q1 == IF bad THEN [q EXCEPT !.hdr = "application/json"] ELSE q
  IN RespondBytes(q1, IF bad THEN 400 ELSE 500, e.msg, "errorHandler")

\* TerseErrorHandler
TerseErrorHandler(q, e) ==
  LET bad == e.kind = "BadRequestError"
      q1 == IF bad THEN [q EXCEPT !.hdr = "application/json"] ELSE q
      status == IF bad THEN 400 ELSE 500
      body == IF bad THEN e.msg ELSE ""
  IN RespondBytes(q1, status, body, "errorHandler")

\* calling an ErrorHandler value
CallErrorHandler(handler, q, e) ==
  IF handler = "DefaultErrorHandler" THEN DefaultErrorHandler(q, e)
  ELSE IF handler = "TerseErrorHandler" THEN TerseErrorHandler(q, e)
  ELSE q

\* An ErrorHandler value called with a fresh context and the error e (what
\* HandleError does with the handler in effect); given records the arguments.
ErrorHandlerCall(r, handler, hdr, e) ==
  /\ req[r].pc = "idle"
  /\ LET q == [IdleReq EXCEPT !.hdr = hdr,
                              !.given = [handler |-> handler, e |-> e, hdr |-> hdr]]
     IN req' = [req EXCEPT ![r] = [CallErrorHandler(handler, q, e) EXCEPT !.pc = "handled"]]
  /\ UNCHANGED <<heap, app, ctrls, handlers, lastChain, serving, root, vers, gv, gen, listen, used>>

\* (variant: the application-wide handler is tried first)
HandleErrorAppFirst(c, q, e) ==
  LET q0 == Log(q, <<"HandleError", e.msg>>) IN
  IF app.errorHandler # "nil"
  THEN CallErrorHandler(app.errorHandler, Log(q0, <<"errorHandler", "app", app.errorHandler>>), e)
  ELSE IF ctrls[c].errorHandler # "nil"
  THEN CallErrorHandler(ctrls[c].errorHandler, Log(q0, <<"errorHandler", "ctrl", ctrls[c].errorHandler>>), e)
  ELSE q0

\* ApplicationController.HandleError
HandleError(c, q, e) ==
  LET q0 == Log(q, <<"HandleError", e.msg>>) IN
  IF ctrls[c].errorHandler # "nil"
  THEN CallErrorHandler(ctrls[c].errorHandler, Log(q0, <<"errorHandler", "ctrl", ctrls[c].errorHandler>>), e)
  ELSE IF app.errorHandler # "nil"
  THEN CallErrorHandler(app.errorHandler, Log(q0, <<"errorHandler", "app", app.errorHandler>>), e)
  ELSE q0

\* --------------------------------------------------------------- dispatch
\* body written by the handler that replaces the chain on a decode failure
InvalidRequestBody(e) ==
  "{\"kind\":\"invalid request\",\"msg\":\"invalid JSON: " \o e.msg \o "\"}"

\* handler := middleware; on a decode error the invalid-request handler
\* wrapped by chain[ml-1] .. chain[0], read from the chain slice now
PickHandler(f, err) ==
  IF err # NoErr
  THEN Compose(Elems(heap, f.chain), f.ml, "invalid")
  ELSE f.middleware

\* (variant: the invalid-request handler is assigned to the variable
\* middleware that the closure shares with every later request)
CapturedMiddlewareAssigned(f, handler) == handler

\* the variable middleware captured by the closure, after a request picked
\* its handler: `handler := middleware` declares a variable of the request,
\* and the invalid-request handler is assigned to that one
CapturedMiddleware(f, handler) == f.middleware

\* The function returned by HandleFunc, up to the invocation of the chain:
\* derive the scope, build the context, decode the body, pick the handler.
\* cl is r.ContentLength, derr what d returns when it is called, act what the
\* action function of this request does.
Dispatch(r, h, cl, derr, act) ==
  /\ serving
  /\ req[r].pc = "idle"
  /\ handlers[h].made
  /\ LET f == handlers[h]
         derived == DeriveScope(r)
         err == IF cl > 0 /\ f.d THEN derr ELSE NoErr
         handler == PickHandler(f, err)
     IN /\ req' = [req EXCEPT ![r] =
                     [IdleReq EXCEPT !.pc = "chain", !.h = h, !.cl = cl,
                                     !.act = act, !.err = err,
                                     !.handler = handler,
                                     !.scope = derived.scope]]
        /\ handlers' = [handlers EXCEPT ![h].middleware = CapturedMiddleware(f, handler)]
        /\ root' = derived.root
  /\ UNCHANGED <<heap, app, ctrls, lastChain, serving, vers, gv, gen, listen, used>>

\* (variant: the action is called whether or not a response was written)
TerminalActionUnguarded(c, q) ==
  LET q1 == Log(q, <<"action", 0>>)
      q2 == IF q.act.wr THEN RespondBytes(q1, 200, "ok", "action") ELSE q1
  IN IF q.act.err # NoErr THEN HandleError(c, q2, q.act.err) ELSE q2

\* the terminal closure of HandleFunc around the action function h
TerminalAction(c, q) ==
  IF ~ResponseWritten(q)
  THEN LET q1 == Log(q, <<"action", 0>>)
           q2 == IF q.act.wr THEN RespondBytes(q1, 200, "ok", "action") ELSE q1
       IN IF q.act.err # NoErr THEN HandleError(c, q2, q.act.err) ELSE q2
  ELSE q

\* the handler used instead when the body could not be decoded
TerminalInvalid(q) ==
  RespondBytes(Log(q, <<"invalid", 0>>), 400, InvalidRequestBody(q.err), "invalid")

\* a middleware's logic before it calls the handler it wraps
PreLogic(m, q) ==
  LET q1 == Log(q, <<"pre", m>>) IN
  IF MwKind(m) = "respond" THEN RespondBytes(q1, 200, "mw", "middleware")
  ELSE IF MwKind(m) = "reject" THEN RespondBytes(q1, 401, "denied", "middleware")
  ELSE q1

\* handler(ctx) for handler.mws[i..] around the terminal handler: each
\* middleware runs its pre-logic, calls the handler it wraps (unless it
\* rejects the request) and runs its post-logic
RECURSIVE Call(_, _, _, _)
Call(c, mws, i, q) ==
  IF i > Len(mws)
  THEN IF q.handler.term = "action" THEN TerminalAction(c, q) ELSE TerminalInvalid(q)
  ELSE IF MwKind(mws[i]) = "reject" THEN PreLogic(mws[i], q)
  ELSE Log(Call(c, mws, i + 1, PreLogic(mws[i], q)), <<"post", mws[i]>>)

\* handler(ctx): the middleware chain runs and returns
InvokeChain(r) ==
  LET q == req[r] IN
  /\ q.pc = "chain"
  /\ req' = [req EXCEPT ![r] =
               [Call(handlers[q.h].ctrl, q.handler.mws, 1, q) EXCEPT !.pc = "returned"]]
  /\ UNCHANGED <<heap, app, ctrls, handlers, lastChain, serving, root, vers, gv, gen, listen, used>>

\* (variant: the backstop does not look at the response status)
BackstopAlways(c, q) == HandleError(c, Log(q, <<"backstop", 0>>), UnhandledErr)

\* if ctx.ResponseStatus() == 0 { ctrl.HandleError(ctx, "unhandled request") }
Backstop(c, q) ==
  IF ResponseStatus(q) = 0
  THEN HandleError(c, Log(q, <<"backstop", 0>>), UnhandledErr)
  ELSE q

\* (variant: cancel() is called as the last statement instead of deferred)
CancelAtEnd(q, panicking) ==
  IF panicking THEN q ELSE [q EXCEPT !.scope.cancelled = TRUE]

\* defer cancel(): runs when the function returns and when it unwinds
DeferredCancel(q, panicking) == [q EXCEPT !.scope.cancelled = TRUE]

\* (variant: the cancel function called is the one of RootContext)
ScopeCancelRoot(r, rq) ==
  [root |-> [cancelled |-> TRUE, children |-> {}],
   req |-> [u \in Reqs |-> IF u \in root.children
                           THEN [rq[u] EXCEPT !.scope.cancelled = TRUE]
                           ELSE rq[u]]]

\* cancel is the CancelFunc of the scope derived for request r (a local of
\* the closure): it detaches that scope from RootContext and reaches no other
\* context. rq is the requests with r's own scope already marked.
ScopeCancel(r, rq) ==
  [root |-> [root EXCEPT !.children = @ \ {r}], req |-> rq]

\* The chain returned: the backstop, then the function returns and the
\* deferred cancel() of the request scope runs.
Return(r) ==
  LET q == req[r] IN
  /\ q.pc = "returned"
  /\ LET q1 == Backstop(handlers[q.h].ctrl, q)
         c == ScopeCancel(r, [req EXCEPT ![r] =
                                [DeferredCancel(q1, FALSE) EXCEPT !.pc = "done"]])
     IN req' = c.req /\ root' = c.root
  /\ UNCHANGED <<heap, app, ctrls, handlers, lastChain, serving, vers, gv, gen, listen, used>>

\* handler(ctx) when the action function panics: the middleware run their
\* pre-logic, the action starts (and writes, if it does) and panics
RECURSIVE CallUntilPanic(_, _, _)
CallUntilPanic(mws, i, q) ==
  IF i > Len(mws)
  THEN LET q1 == Log(q, <<"action", 0>>)
           q2 == IF q.act.wr THEN RespondBytes(q1, 200, "ok", "action") ELSE q1
       IN Log(q2, <<"panic", 0>>)
  ELSE CallUntilPanic(mws, i + 1, PreLogic(mws[i], q))

\* The action function panics inside handler(ctx): no middleware recovers,
\* the function returned by HandleFunc unwinds past the backstop, its deferred
\* cancel() runs and the panic reaches the caller.
ChainPanics(r) ==
  LET q == req[r] IN
  /\ q.pc = "chain"
  /\ q.handler.term = "action"
  /\ \A i \in 1..Len(q.handler.mws) : MwKind(q.handler.mws[i]) = "pass"
  /\ LET c == ScopeCancel(r, [req EXCEPT ![r] =
                                [DeferredCancel(CallUntilPanic(q.handler.mws, 1, q), TRUE)
                                   EXCEPT !.pc = "panicked"]])
     IN req' = c.req /\ root' = c.root
  /\ UNCHANGED <<heap, app, ctrls, handlers, lastChain, serving, vers, gv, gen, listen, used>>

\* The request is over; the server takes the next one.
NextRequest(r) ==
  /\ req[r].pc \in {"done", "panicked", "handled", "decoded"}
  /\ req' = [req EXCEPT ![r] = IdleReq]
  /\ UNCHANGED <<heap, app, ctrls, handlers, lastChain, serving, root, vers, gv, gen, listen, used>>

\* ---------------------------------------------------------- specifications
\* In every specification the program configures the service before it
\* starts the server (the call that serves blocks the goroutine that
\* configures): the registration calls are made while ~serving.

\* Spec: one controller, one action, one request at a time; every error
\* handler configuration, action behaviour and decode outcome. The
\* controller's first middleware is of any kind, the later ones pass.
Next ==
  \/ \E m \in {1} : app.middleware.len < MaxUse /\ ~serving /\ Use(m)
  \/ \E e \in ErrorHandlers : ~serving /\ SetErrorHandler(e)
  \/ ~serving /\ NewController("A")
  \/ \E m \in {2, 3, 4} : ctrls["A"].middleware.len < MaxCtrlMw
                            /\ (IF ctrls["A"].middleware.len = 0 THEN TRUE ELSE m = 2)
                            /\ ~serving /\ CtrlUse("A", m)
  \/ \E e \in ErrorHandlers : ~serving /\ CtrlSetErrorHandler("A", e)
  \/ \E d \in BOOLEAN : ~handlers["show"].made /\ ~serving /\ HandleFunc("show", "A", d)
  \/ ListenAndServe
  \/ ListenAndServeTLS
  \/ \E cl \in {0, 1}, derr \in DecodeErrs \cup {NoErr}, act \in Acts :
        Dispatch(1, "show", cl, derr, act)
  \/ InvokeChain(1)
  \/ ChainPanics(1)
  \/ Return(1)
  \/ NextRequest(1)

Spec == Init /\ [][Next]_vars

\* each controller registers its own middleware and mounts its own action
OwnMw(c) == IF c = "A" THEN 2 ELSE 3
OwnAction(c) == IF c = "A" THEN "show" ELSE "list"

\* SpecReg: the registries alone: Use on the service and on two controllers,
\* interleaved in any order, and direct calls of MiddlewareChain. The
\* service is handed either of two middleware, never the same twice in a
\* row; controller "A" either of two, controller "B" its own, once.
NextReg ==
  \/ \E m \in {1, 2} : /\ app.middleware.len < MaxAppMw
                        /\ (IF used["app"] = <<>> THEN TRUE ELSE m # used["app"][Len(used["app"])])
                        /\ ~serving /\ Use(m)
  \/ \E c \in Ctrls : ~serving /\ NewController(c)
  \/ \E m \in {2, 3} :
        ctrls["A"].middleware.len < MaxCtrlMw /\ ~serving /\ CtrlUse("A", m)
  \/ used["B"] = <<>> /\ ~serving /\ CtrlUse("B", OwnMw("B"))
  \/ \E c \in Ctrls : ~serving /\ MiddlewareChain(c)

SpecReg == Init /\ [][NextReg]_vars

\* SpecChain: two controllers, each with its own middleware and action, built
\* on a service with up to MaxAppMw middleware; requests whose body decodes
\* or fails to decode.
NextChain ==
  \/ app.middleware.len < MaxAppMw /\ ~serving /\ Use(1)
  \/ \E c \in Ctrls : ~serving /\ NewController(c)
  \/ \E c \in Ctrls : ctrls[c].middleware.len < MaxCtrlMw /\ ~serving /\ CtrlUse(c, OwnMw(c))
  \/ \E c \in Ctrls : ~handlers[OwnAction(c)].made /\ ~serving /\ HandleFunc(OwnAction(c), c, TRUE)
  \/ ListenAndServe
  \/ ListenAndServeTLS
  \/ \E h \in ActionNames, derr \in DecodeErrs \cup {NoErr} : Dispatch(1, h, 1, derr, ActOk)
  \/ InvokeChain(1)
  \/ Return(1)
  \/ NextRequest(1)

SpecChain == Init /\ [][NextChain]_vars

\* SpecCancel: one action, up to MaxReq requests in flight at once, and the
\* global Cancel at any moment.
NextCancel ==
  \/ ~serving /\ NewController("A")
  \/ ~handlers["show"].made /\ ~serving /\ HandleFunc("show", "A", FALSE)
  \/ ListenAndServe
  \/ ListenAndServeTLS
  \/ Cancel
  \/ \E r \in Reqs, act \in {ActOk, [wr |-> FALSE, err |-> NoErr]} :
        Dispatch(r, "show", 0, NoErr, act)
  \/ \E r \in Reqs : InvokeChain(r)
  \/ \E r \in Reqs : Return(r)
  \/ \E r \in Reqs : NextRequest(r)

SpecCancel == Init /\ [][NextCancel]_vars

\* SpecSeq: the service configured as a main function does (its middleware,
\* then two controllers, each with its middleware and then its action), then
\* three requests one after the other: request 1 to "show", then maybe
\* request 3, whose body fails to decode, to "show" or to the other
\* controller's action "list", then request 2 to "show"; the action of
\* "show" returns an error.
ActFails == [wr |-> FALSE, err |-> [kind |-> "error", msg |-> "boom"]]

NextSeq ==
  \/ app.middleware.len < MaxAppMw /\ (\A c \in Ctrls : ~ctrls[c].made) /\ ~serving /\ Use(1)
  \/ \E c \in Ctrls : ~serving /\ NewController(c)
  \/ \E c \in Ctrls : ctrls[c].middleware.len < MaxCtrlMw /\ ~handlers[OwnAction(c)].made
                        /\ ~serving /\ CtrlUse(c, OwnMw(c))
  \/ ~serving /\ CtrlSetErrorHandler("A", "TerseErrorHandler")
  \/ \E c \in Ctrls : ~handlers[OwnAction(c)].made /\ ~serving /\ HandleFunc(OwnAction(c), c, TRUE)
  \/ ListenAndServe
  \/ ListenAndServeTLS
  \/ \E derr \in DecodeErrs \cup {NoErr} :
        req[2].pc = "idle" /\ req[3].pc = "idle" /\ Dispatch(1, "show", 1, derr, ActFails)
  \/ \E h \in ActionNames, derr \in DecodeErrs :
        req[1].pc = "done" /\ req[2].pc = "idle" /\ Dispatch(3, h, 1, derr, ActOk)
  \/ \E derr \in DecodeErrs \cup {NoErr} :
        req[1].pc = "done" /\ req[3].pc \in {"idle", "done"}
          /\ Dispatch(2, "show", 1, derr, ActFails)
  \/ \E r \in {1, 2, 3} : InvokeChain(r)
  \/ \E r \in {1, 2, 3} : Return(r)

SpecSeq == Init /\ [][NextSeq]_vars

\* SpecVer: GetVersion called by one goroutine at a time.
NextVer ==
  \/ \E t \in Callers, name \in VersionNames : Quiet(t) /\ GetVersion(t, name)
  \/ \E t \in Callers : GetVersionMake(t)
  \/ \E t \in Callers : GetVersionLookup(t)
  \/ \E t \in Callers : newVersion(t)
  \/ \E t \in Callers : newVersionReturn(t)

SpecVer == Init /\ [][NextVer]_vars

\* SpecVerConc: GetVersion called by several goroutines concurrently.
NextVerConc ==
  \/ \E t \in Callers, name \in VersionNames : GetVersion(t, name)
  \/ \E t \in Callers : GetVersionMake(t)
  \/ \E t \in Callers : GetVersionLookup(t)
  \/ \E t \in Callers : newVersion(t)
  \/ \E t \in Callers : newVersionReturn(t)
  \/ ConcurrentMapFault

SpecVerConc == Init /\ [][NextVerConc]_vars

\* SpecDec: decoders registered, then requests of every declared content type
\* decoded.
NextDec ==
  \/ \E f \in Decoders, makeDefault \in BOOLEAN, cts \in (SUBSET Registrable) \ {{}} :
        ~serving /\ SetDecoder(f, makeDefault, cts)
  \/ ListenAndServe
  \/ ListenAndServeTLS
  \/ \E r \in Reqs, ct \in ContentTypes : DecodeRequest(r, ct)
  \/ \E r \in Reqs : NextRequest(r)

SpecDec == Init /\ [][NextDec]_vars

\* SpecLate: a service and one controller configured, HandleFunc called, and
\* then further Use calls, on the service and on the controller, that register
\* the middleware LateMw, before the service starts serving.
LateMw == 5
CountOf(seq, m) == Cardinality({i \in 1..Len(seq) : seq[i] = m})

NextLate ==
  \/ app.middleware.len < MaxAppMw /\ ~handlers["show"].made /\ ~serving /\ Use(1)
  \/ ~serving /\ NewController("A")
  \/ ctrls["A"].middleware.len < MaxCtrlMw /\ ~handlers["show"].made /\ ~serving /\ CtrlUse("A", 2)
  \/ ~handlers["show"].made /\ ~serving /\ HandleFunc("show", "A", TRUE)
  \/ handlers["show"].made /\ CountOf(Elems(heap, app.middleware), LateMw) < MaxLate
        /\ ~serving /\ Use(LateMw)
  \/ handlers["show"].made
        /\ CountOf(Elems(heap, ctrls["A"].middleware), LateMw) < MaxLate
        /\ ~serving /\ CtrlUse("A", LateMw)
  \/ ListenAndServe
  \/ ListenAndServeTLS
  \/ \E derr \in DecodeErrs \cup {NoErr} : Dispatch(1, "show", 1, derr, ActOk)
  \/ InvokeChain(1)
  \/ Return(1)
  \/ NextRequest(1)

SpecLate == Init /\ [][NextLate]_vars

\* SpecGen: the main generator run on every state of the output directory,
\* with and without Force, with every failing call, uninterrupted or
\* statement by statement with a signal arriving at any point of the run or
\* after it.
NextGen ==
  \/ \E f \in Files : FileExists(f)
  \/ \E force \in BOOLEAN, fail \in Failures : Generate(force, fail)
  \/ \E force \in BOOLEAN : GenerateCall(force)
  \/ GenerateStep
  \/ CatchSignal
  \/ CatchRemove
  \/ CatchCleanup
  \/ NextGenerator

SpecGen == Init /\ [][NextGen]_vars

\* SpecErr: the built-in error handlers applied to every error and header.
NextErr ==
  \/ \E r \in Reqs, handler \in ErrorHandlers \ {"nil"}, hdr \in Headers, e \in Errs :
        ErrorHandlerCall(r, handler, hdr, e)
  \/ \E r \in Reqs : NextRequest(r)

SpecErr == Init /\ [][NextErr]_vars

\* ------------------------------------------------------ trace vocabulary
Finished(q) == q.pc \in {"returned", "done"}
Has(q, ev) == \E i \in 1..Len(q.trace) : q.trace[i] = ev
TagAt(q, i) == q.trace[i][1]
HasTag(q, tag) == \E i \in 1..Len(q.trace) : TagAt(q, i) = tag
ActionRan(q) == Has(q, <<"action", 0>>)
IsChainEvent(ev) == ev[1] \in {"pre", "post", "action", "invalid"}
ChainEvents(q) == SelectSeq(q.trace, IsChainEvent)
PreOf(M) == [i \in 1..Len(M) |-> <<"pre", M[i]>>]
PostOf(M) == [i \in 1..Len(M) |-> <<"post", M[Len(M) + 1 - i]>>]
Responds(M) == \E i \in 1..Len(M) : MwKind(M[i]) # "pass"
Rejects(M) == \E i \in 1..Len(M) : MwKind(M[i]) = "reject"
\* the middleware that are entered: up to the first one that rejects
Entered(M) ==
  IF Rejects(M)
  THEN SubSeq(M, 1, CHOOSE i \in 1..Len(M) :
                      MwKind(M[i]) = "reject" /\ \A j \in 1..(i - 1) : MwKind(M[j]) # "reject")
  ELSE M
\* those of them that call the handler they wrap
Wrapping(M) == IF Rejects(M) THEN SubSeq(M, 1, Len(Entered(M)) - 1) ELSE M
WritesBy(q, by) == {i \in 1..Len(q.writes) : q.writes[i].by = by}

\* ------------------------------------------------------------------ C1
\* C1: on the normal path one invocation of the handler built by HandleFunc
\* runs the pre-logic of M1..Mn in registration order, then the action (once,
\* and only if no middleware responded), then the post-logic of Mn..M1, where
\* M1..Mn is the chain MiddlewareChain returned to HandleFunc (cut at the
\* first middleware that does not call the handler it wraps).
C1_WrapOrder ==
  \A r \in Reqs :
    LET q == req[r] IN
    (Finished(q) /\ q.err = NoErr) =>
      LET M == handlers[q.h].returned IN
      ChainEvents(q) = PreOf(Entered(M))
                       \o (IF Responds(M) THEN <<>> ELSE << <<"action", 0>> >>)
                       \o PostOf(Wrapping(M))

C1_Witness ==
  \E r \in Reqs :
    /\ Finished(req[r]) /\ req[r].err = NoErr /\ ActionRan(req[r])
    /\ handlers[req[r].h].returned = <<1, 1, 2>>

\* ------------------------------------------------------------------ C3
ClaimedInvalidBody(msg) == "{\"kind\":\"invalid request\",\"msg\":\"" \o msg \o "\"}"
DecodeFailed(q) == Finished(q) /\ q.cl > 0 /\ handlers[q.h].d /\ q.err # NoErr

\* C3 as claimed: on a decode failure the action is not invoked and a response
\* of status 400 with body {"kind":"invalid request","msg":"<err>"} is written.
C3_AsClaimed ==
  \A r \in Reqs :
    LET q == req[r] IN
    DecodeFailed(q) =>
      /\ ~ActionRan(q)
      /\ \E i \in 1..Len(q.writes) :
           q.writes[i].status = 400 /\ q.writes[i].body = ClaimedInvalidBody(q.err.msg)

\* ------------------------------------------------------------------ C4
\* C4 as claimed: a write performed by the dispatcher's own paths (the
\* invalid-request handler, an error handler called for an action error or by
\* the backstop) never comes after a first response write.
C4_AsClaimed ==
  \A r \in Reqs :
    \A i \in 1..Len(req[r].writes) :
      req[r].writes[i].by \in {"invalid", "errorHandler"} => i = 1

\* ------------------------------------------------------------------ C5
\* C5 as claimed: when the function returned by HandleFunc returns, the
\* response status is set.
C5_AsClaimed ==
  \A r \in Reqs : req[r].pc = "done" => req[r].status # 0

\* ------------------------------------------------------------------ C6
FirstIndex(q, tag) == CHOOSE i \in 1..Len(q.trace) :
                        TagAt(q, i) = tag /\ \A j \in 1..(i - 1) : TagAt(q, j) # tag

\* C6: the backstop calls HandleError with the "unhandled request" error
\* exactly when no response was written by the time the chain returned; an
\* action that ran, wrote nothing and returned nil, under a built-in error
\* handler, ends with exactly one response (500, from the backstop).
C6_Backstop ==
  \A r \in Reqs :
    LET q == req[r] IN
    q.pc = "done" =>
      /\ IF HasTag(q, "backstop")
         THEN LET k == FirstIndex(q, "backstop") IN
              /\ \A j \in 1..k : TagAt(q, j) # "write"
              /\ k < Len(q.trace) /\ q.trace[k + 1] = <<"HandleError", "unhandled request">>
              /\ \A j \in 1..Len(q.trace) : TagAt(q, j) = "backstop" => j = k
         ELSE HasTag(q, "write")
      /\ (/\ ActionRan(q) /\ ~q.act.wr /\ q.act.err = NoErr
          /\ (ctrls[handlers[q.h].ctrl].errorHandler # "nil" \/ app.errorHandler # "nil"))
         => (/\ Len(q.writes) = 1 /\ q.writes[1].by = "errorHandler"
             /\ q.status = 500 /\ HasTag(q, "backstop"))

C6_Witness ==
  \E r \in Reqs :
    LET q == req[r] IN
    /\ q.pc = "done" /\ ActionRan(q) /\ ~q.act.wr /\ q.act.err = NoErr
    /\ HasTag(q, "backstop") /\ Len(q.writes) = 1 /\ Len(q.handler.mws) >= 1

\* ------------------------------------------------------------------ C7
\* C7: every error routed by HandleError reaches the controller's error
\* handler when one is set, else the application's when one is set, else no
\* handler; an error handler runs only as the one handler of a HandleError call.
C7_HandleError ==
  \A r \in Reqs :
    LET q == req[r]
        c == handlers[q.h].ctrl
        n == Len(q.trace)
    IN Finished(q) =>
       /\ \A i \in 1..n : TagAt(q, i) = "HandleError" =>
            IF ctrls[c].errorHandler # "nil"
            THEN i < n /\ q.trace[i + 1] = <<"errorHandler", "ctrl", ctrls[c].errorHandler>>
            ELSE IF app.errorHandler # "nil"
            THEN i < n /\ q.trace[i + 1] = <<"errorHandler", "app", app.errorHandler>>
            ELSE i = n \/ TagAt(q, i + 1) # "errorHandler"
       /\ \A j \in 1..n : TagAt(q, j) = "errorHandler" =>
            /\ j > 1 /\ TagAt(q, j - 1) = "HandleError"
            /\ j < n /\ q.trace[j + 1] = <<"write", "errorHandler">>
       /\ Cardinality(WritesBy(q, "errorHandler"))
            = Cardinality({j \in 1..n : TagAt(q, j) = "errorHandler"})
       /\ (ctrls[c].errorHandler = "nil" /\ app.errorHandler = "nil")
            => WritesBy(q, "errorHandler") = {}

C7_Witness ==
  \E r \in Reqs :
    LET q == req[r] IN
    /\ Finished(q) /\ HasTag(q, "HandleError")
    /\ ctrls[handlers[q.h].ctrl].errorHandler = "TerseErrorHandler"
    /\ app.errorHandler = "DefaultErrorHandler"
    /\ Has(q, <<"errorHandler", "ctrl", "TerseErrorHandler">>)

\* ------------------------------------------------------------------ C8
\* C8 as claimed: when the action wrote a response and then returned an
\* error, no error handler is invoked for it.
C8_AsClaimed ==
  \A r \in Reqs :
    LET q == req[r] IN
    (Finished(q) /\ ActionRan(q) /\ q.act.wr /\ q.act.err # NoErr)
      => ~HasTag(q, "errorHandler")

\* ------------------------------------------------------------------ C2
\* C2: the value MiddlewareChain returns is the application-wide middleware in
\* registration order followed by the controller's own in registration order.
C2_MiddlewareChain ==
  [][\A c \in Ctrls :
       MiddlewareChain(c) =>
         Elems(heap', lastChain') = used["app"] \o used[c]]_vars

C2_Witness ==
  /\ Elems(heap, lastChain) = <<2, 1, 2, 3, 2>>
  /\ used["app"] = <<2, 1, 2>>
  /\ \E c \in Ctrls : used[c] = <<3, 2>>

\* ------------------------------------------------------------------ C9
\* C9 as claimed: on a decode failure the invalid-request handler runs through
\* the same middleware, in the same order, as the normal path of the action.
C9_AsClaimed ==
  \A r \in Reqs :
    LET q == req[r] IN
    DecodeFailed(q) =>
      SelectSeq(ChainEvents(q), LAMBDA ev : ev[1] = "pre")
        = PreOf(handlers[q.h].middleware.mws)

\* ----------------------------------------------------------------- C10
InFlight(q) == q.pc \in {"chain", "returned"}

\* C10: once Cancel was called, the scope of every request in flight is
\* cancelled, and a request dispatched afterwards holds a scope that was
\* cancelled when it was derived; no scope is born cancelled before Cancel.
C10_Cancel ==
  /\ root.cancelled =>
       \A r \in Reqs : InFlight(req[r]) => req[r].scope.cancelled
  /\ \A r \in Reqs :
       (req[r].pc = "chain" /\ ~req[r].scope.bornCancelled /\ ~root.cancelled)
         => (~req[r].scope.cancelled /\ r \in root.children)
  /\ \A r \in Reqs : req[r].scope.bornCancelled => root.cancelled

C10_Witness ==
  /\ root.cancelled
  /\ \E r1, r2, r3 \in Reqs :
       /\ r1 # r2
       /\ InFlight(req[r1]) /\ ~req[r1].scope.bornCancelled /\ req[r1].scope.cancelled
       /\ InFlight(req[r2]) /\ ~req[r2].scope.bornCancelled /\ req[r2].scope.cancelled
       /\ req[r3].pc = "chain" /\ req[r3].scope.bornCancelled

\* ----------------------------------------------------------------- C11
\* C11: the scope of a request is cancelled once its dispatch is over, whether
\* the function returned (normal completion, decode failure, action error,
\* backstop) or unwound on a panic of the action, and is not cancelled while
\* the chain has not returned or the backstop has not run.
C11_ScopeCancelled ==
  \A r \in Reqs :
    LET q == req[r] IN
    /\ q.pc \in {"done", "panicked"} => (q.scope.made /\ q.scope.cancelled)
    /\ q.pc \in {"chain", "returned"} => (q.scope.made /\ ~q.scope.cancelled)

C11_Witness ==
  /\ req[1].pc = "panicked" /\ req[1].scope.cancelled
  /\ Has(req[1], <<"panic", 0>>) /\ Len(req[1].handler.mws) >= 2
  /\ req[1].status = 0

\* ----------------------------------------------------------------- C12
Handled(q, handler) == q.pc = "handled" /\ q.given.handler = handler

\* C12: DefaultErrorHandler writes exactly once: 400, the JSON content type
\* and the message of e when e is a BadRequestError, else 500 and the message
\* of e (the headers left as they were).
C12_DefaultErrorHandler ==
  \A r \in Reqs :
    LET q == req[r] IN
    Handled(q, "DefaultErrorHandler") =>
      /\ Len(q.writes) = 1
      /\ q.writes[1].body = q.given.e.msg
      /\ IF q.given.e.kind = "BadRequestError"
         THEN q.writes[1].status = 400 /\ q.writes[1].hdr = "application/json"
         ELSE q.writes[1].status = 500 /\ q.writes[1].hdr = q.given.hdr
      /\ q.status = q.writes[1].status

C12_Witness ==
  \E r1, r2 \in Reqs :
    /\ Handled(req[r1], "DefaultErrorHandler") /\ Handled(req[r2], "DefaultErrorHandler")
    /\ req[r1].given.e = [kind |-> "BadRequestError", msg |-> "boom"]
    /\ req[r1].given.hdr = "text/plain" /\ req[r1].status = 400
    /\ req[r2].given.e = [kind |-> "error", msg |-> "boom"] /\ req[r2].status = 500

\* ----------------------------------------------------------------- C13
\* C13: for the same error and the same headers TerseErrorHandler writes once,
\* with the status and the headers DefaultErrorHandler writes, the same body
\* when the status is 400 and an empty body when it is 500.
C13_TerseErrorHandler ==
  \A r1, r2 \in Reqs :
    LET d == req[r1]
        t == req[r2]
    IN (/\ Handled(d, "DefaultErrorHandler") /\ Handled(t, "TerseErrorHandler")
        /\ d.given.e = t.given.e /\ d.given.hdr = t.given.hdr) =>
       /\ Len(t.writes) = 1 /\ Len(d.writes) = 1
       /\ t.writes[1].status = d.writes[1].status
       /\ t.writes[1].hdr = d.writes[1].hdr
       /\ t.writes[1].status \in {400, 500}
       /\ t.writes[1].status = 400 => t.writes[1].body = d.writes[1].body
       /\ t.writes[1].status = 500 => t.writes[1].body = ""

C13_Witness ==
  \E r1, r2 \in Reqs :
    /\ Handled(req[r1], "DefaultErrorHandler") /\ Handled(req[r2], "TerseErrorHandler")
    /\ req[r1].given.e = [kind |-> "error", msg |-> "boom"]
    /\ req[r2].given.e = req[r1].given.e /\ req[r2].given.hdr = req[r1].given.hdr
    /\ req[r1].writes[1].body = "boom" /\ req[r2].writes[1].body = ""
    /\ req[r2].status = 500

\* ----------------------------------------------------------------- C14
SameRequest(q1, q2) ==
  q1.h = q2.h /\ q1.cl = q2.cl /\ q1.err = q2.err /\ q1.act = q2.act

\* C14: once the service is serving, two requests to the same action with the
\* same input run the same middleware in the same order and reach the same
\* error handler, whatever request was served in between (to the same action
\* with a body that fails to decode, or to another controller's action):
\* their handlers, their traces and their responses are equal.
C14_StableRegistry ==
  \A r1, r2 \in Reqs :
    (req[r1].pc = "done" /\ req[r2].pc = "done" /\ SameRequest(req[r1], req[r2])) =>
      /\ req[r1].handler = req[r2].handler
      /\ req[r1].trace = req[r2].trace
      /\ req[r1].writes = req[r2].writes

C14_Witness ==
  /\ req[1].pc = "done" /\ req[3].pc = "done" /\ req[2].pc = "done"
  /\ req[3].h = "show" /\ req[3].err # NoErr
  /\ req[1].err = NoErr /\ SameRequest(req[1], req[2])
  /\ Has(req[2], <<"errorHandler", "ctrl", "TerseErrorHandler">>)
  /\ req[2].handler.mws = <<1, 1, 1, 2>>

\* ----------------------------------------------------------------- C15
Created(name) == {i \in 1..Len(vers) : vers[i].name = name}
Returned(t) == gv[t].pc = "returned"

\* C15: called by one goroutine at a time, GetVersion(name) returns a version
\* object of that name with an empty mux and empty codec pools, the one the
\* map holds for the name; one object at most is ever created for a name, the
\* map keeps pointing at it, callers of one name hold the same object and
\* callers of distinct names hold distinct objects.
C15_GetVersion ==
  /\ \A n \in VersionNames :
       /\ Cardinality(Created(n)) <= 1
       /\ \A i \in Created(n) :
            (\A t \in Callers : gv[t].pc = "new" => gv[t].name # n) => app.versions.m[n] = i
       /\ app.versions.m[n] # 0 => app.versions.m[n] \in Created(n)
  /\ \A t \in Callers :
       Returned(t) =>
         /\ gv[t].result # 0
         /\ gv[t].result = app.versions.m[gv[t].name]
         /\ vers[gv[t].result] = [name |-> gv[t].name, mux |-> {}, decoderPools |-> {},
                                  encoderPools |-> {}, encodableContentTypes |-> <<>>]
  /\ \A t, u \in Callers :
       (Returned(t) /\ Returned(u)) =>
         (gv[t].name = gv[u].name <=> gv[t].result = gv[u].result)

C15_Witness ==
  /\ Len(vers) = 3
  /\ \E t, u \in Callers :
       /\ t # u /\ Returned(t) /\ Returned(u)
       /\ gv[t].name = "v1" /\ gv[u].name = "v1" /\ gv[t].result = 2 /\ gv[u].result = 2

\* ----------------------------------------------------------------- C16
\* C16 as claimed: under concurrent calls one version object at most is
\* created for a name and every caller of the name that returned holds it.
C16_AsClaimed ==
  /\ \A n \in VersionNames : Cardinality(Created(n)) <= 1
  /\ \A t \in Callers : Returned(t) => gv[t].result \in Created(gv[t].name)
  /\ \A t, u \in Callers :
       (Returned(t) /\ Returned(u) /\ gv[t].name = gv[u].name) => gv[t].result = gv[u].result

\* ----------------------------------------------------------------- C17
Decoded(q) == q.pc = "decoded"

\* C17: a request whose declared content type has a registered decoder is
\* decoded by that decoder; one whose type matches no registered decoder is
\* decoded by the default decoder when one was registered with makeDefault,
\* and fails with a decode error when there is none.
C17_DecoderNegotiation ==
  \A r \in Reqs :
    LET q == req[r]
        registered == app.decoderPools[q.decode.ct]
    IN Decoded(q) =>
       /\ registered # "none" => (q.decode.by = registered /\ q.decode.err = NoErr)
       /\ (registered = "none" /\ app.defaultDecoder # "none")
            => (q.decode.by = app.defaultDecoder /\ q.decode.err = NoErr)
       /\ (registered = "none" /\ app.defaultDecoder = "none")
            => (q.decode.by = "none" /\ q.decode.err # NoErr)

C17_Witness ==
  /\ app.decoderPools["application/xml"] = "xml" /\ app.defaultDecoder = "xml"
  /\ app.decoderPools["application/json"] = "json"
  /\ \E r1, r2 \in Reqs :
       /\ Decoded(req[r1]) /\ req[r1].decode.ct = "text/unknown" /\ req[r1].decode.by = "xml"
       /\ Decoded(req[r2]) /\ req[r2].decode.ct = "application/json" /\ req[r2].decode.by = "json"

\* ----------------------------------------------------------------- C18
\* the terminal handler of the action was reached with a response already
\* written by a middleware that called the handler it wraps
ReachedWritten(q) ==
  /\ Finished(q) /\ q.handler.term = "action"
  /\ ~Rejects(q.handler.mws) /\ WritesBy(q, "middleware") # {}

\* C18: when a middleware wrote a response and then called the next handler,
\* the action function is not invoked and no error handler runs for the
\* request, by the terminal handler or by the backstop: the middleware's
\* response is the only one.
C18_TerminalGuard ==
  \A r \in Reqs :
    LET q == req[r] IN
    ReachedWritten(q) =>
      /\ ~ActionRan(q)
      /\ ~HasTag(q, "HandleError") /\ ~HasTag(q, "errorHandler")
      /\ \A i \in 1..Len(q.writes) : q.writes[i].by = "middleware"
      /\ ChainEvents(q) = PreOf(q.handler.mws) \o PostOf(q.handler.mws)

C18_Witness ==
  \E r \in Reqs :
    /\ ReachedWritten(req[r]) /\ req[r].pc = "done"
    /\ req[r].act.wr /\ req[r].act.err # NoErr
    /\ req[r].handler.mws = <<1, 1, 3>> /\ req[r].status = 200

\* ----------------------------------------------------------------- C19
Range(seq) == {seq[i] : i \in 1..Len(seq)}

\* C19 as claimed: every middleware a handler built for a controller runs, on
\* the normal path and on the decode-failure path, is an application-wide
\* middleware or a middleware of that controller.
C19_AsClaimed ==
  \A r \in Reqs :
    LET q == req[r] IN
    Finished(q) =>
      \A i \in 1..Len(q.trace) :
        TagAt(q, i) = "pre" =>
          q.trace[i][2] \in Range(Elems(heap, app.middleware))
                             \cup Range(Elems(heap, ctrls[handlers[q.h].ctrl].middleware))

\* ----------------------------------------------------------------- C20
\* C20 as claimed: a middleware registered with Use after HandleFunc returned
\* is never run by the handler HandleFunc returned.
C20_AsClaimed ==
  \A r \in Reqs : Finished(req[r]) => ~Has(req[r], <<"pre", LateMw>>)

\* ----------------------------------------------------------------- C21
\* C21: the return of one request's dispatch cancels the scope of that
\* request and nothing else: the root keeps its state, the scope of every
\* other request is unchanged, and a request dispatched while the root is not
\* cancelled gets a scope that is not cancelled.
C21_OwnScopeOnly ==
  [][/\ \A r \in Reqs :
          Return(r) =>
            /\ req'[r].scope.cancelled
            /\ root'.cancelled = root.cancelled
            /\ \A u \in Reqs \ {r} : req'[u].scope = req[u].scope
     /\ \A u \in Reqs :
          (req[u].pc = "idle" /\ req'[u].pc = "chain" /\ ~root.cancelled)
            => (~req'[u].scope.cancelled /\ ~root'.cancelled)]_vars

C21_Witness ==
  /\ ~root.cancelled
  /\ \E r1, r2, r3 \in Reqs :
       /\ req[r1].pc = "done" /\ req[r1].scope.cancelled
       /\ req[r2].pc = "returned" /\ ~req[r2].scope.cancelled /\ r2 \in root.children
       /\ req[r3].pc = "chain" /\ ~req[r3].scope.cancelled /\ r3 \in root.children

\* ----------------------------------------------------------------- C22
GenReturned == gen.pc = "returned"
Listed == {gen.files[i] : i \in 1..Len(gen.files)}

\* C22 as claimed: when Generate returns an error, every file recorded during
\* the run is removed and genfiles is empty; when it returns nil, the list
\* returned is exactly the files the run created.
C22_AsClaimed ==
  GenReturned =>
    /\ gen.err # NilErr => (gen.genfiles = <<>> /\ gen.recorded \cap gen.fs = {})
    /\ gen.err = NilErr => (Listed = gen.created /\ Len(gen.files) = Cardinality(gen.created))

\* ----------------------------------------------------------------- C23
ResourceFileSet == {ResourceFiles[i] : i \in 1..Len(ResourceFiles)}

\* C23 as claimed: when a step of producing a resource file failed, Generate
\* returns an error; a file whose step failed is never in the list of a
\* successful return.
C23_AsClaimed ==
  GenReturned =>
    /\ gen.failed \cap ResourceFileSet # {} => gen.err # NilErr
    /\ gen.err = NilErr => Listed \cap gen.failed = {}

\* ----------------------------------------------------------------- C24
\* C24 as claimed: when no call fails, Generate under Force succeeds and
\* lists every target file, whether or not it existed before; without Force
\* it succeeds and creates and lists exactly the files that did not exist.
C24_AsClaimed ==
  (GenReturned /\ gen.fail = NoFailure) =>
    /\ gen.err = NilErr
    /\ Files \subseteq gen.fs
    /\ IF gen.force
       THEN Listed = Files /\ gen.created = Files
       ELSE Listed = Files \ gen.pre /\ gen.created = Files \ gen.pre

====
